---------------------------- MODULE Spec2Model ----------------------------
(***************************************************************************)
(* FIFO capital-gains engine of src/src/data_processor.py (DataProcessor). *)
(*                                                                         *)
(* One run of process_data over one DataFrame of trade rows is modelled    *)
(* as a state machine: the rows are separated into buys and sells, both    *)
(* are sorted by trade date, every buy becomes a parcel of its symbol's    *)
(* list in available_shares, every sell walks that list from its head,     *)
(* the sale results are folded into the per-financial-year summary and     *)
(* the two output frames are built.                                        *)
(*                                                                         *)
(* Amounts are Python floats in the code; here they are exact rationals    *)
(* <<numerator, denominator>> in lowest terms, so binary rounding is not   *)
(* modelled.  Units are integers.  The currency/date formatting of the     *)
(* output frames (_format_currency, _format_date, _format_holding_period)  *)
(* is presentation and is left out: frames hold the raw values.            *)
(***************************************************************************)
EXTENDS Integers, Sequences, FiniteSets, TLC

(***************************************************************************)
(* Bounds of the model.                                                    *)
(***************************************************************************)
MaxTrades == 3
MaxUnits == 2

(***************************************************************************)
(* Exact rational arithmetic standing for Python's float arithmetic.       *)
(***************************************************************************)
Abs(n) == IF n < 0 THEN -n ELSE n

RECURSIVE GCD(_, _)
GCD(a, b) == IF b = 0 THEN a ELSE GCD(b, a % b)

\* n/d with d > 0, in lowest terms
Norm(n, d) == IF n = 0 THEN <<0, 1>>
              ELSE LET g == GCD(Abs(n), d) IN <<n \div g, d \div g>>

Rat(n) == <<n, 1>>
Zero == Rat(0)
Half == <<1, 2>>
RAdd(a, b) == Norm(a[1] * b[2] + b[1] * a[2], a[2] * b[2])
RNeg(a) == <<-a[1], a[2]>>
RSub(a, b) == RAdd(a, RNeg(b))
RMul(a, b) == Norm(a[1] * b[1], a[2] * b[2])
RAbs(a) == <<Abs(a[1]), a[2]>>
RLt(a, b) == a[1] * b[2] < b[1] * a[2]
RLe(a, b) == a[1] * b[2] <= b[1] * a[2]
RPos(a) == a[1] > 0

(***************************************************************************)
(* Calendar dates [year, month, day] and datetime subtraction (.days).     *)
(***************************************************************************)
\* days since 1970-01-01 in the proleptic Gregorian calendar
Ordinal(date) ==
    LET y   == IF date.month <= 2 THEN date.year - 1 ELSE date.year
        era == y \div 400
        yoe == y - era * 400
        mp  == IF date.month > 2 THEN date.month - 3 ELSE date.month + 9
        doy == (153 * mp + 2) \div 5 + date.day - 1
        doe == yoe * 365 + yoe \div 4 - yoe \div 100 + doy
    IN  era * 146097 + doe - 719468

\* (a - b).days
DaysBetween(a, b) == Ordinal(a) - Ordinal(b)

\* DataProcessor.__init__: self.cgt_discount_days
cgt_discount_days == 365

(***************************************************************************)
(* _get_financial_year: f"FY{..}_{..}" formats each number with str(),     *)
(* that is without padding.                                                *)
(***************************************************************************)
_get_financial_year(date) ==
    IF date.month >= 7
    THEN "FY" \o ToString(date.year % 100) \o "_" \o ToString((date.year + 1) % 100)
    ELSE "FY" \o ToString((date.year - 1) % 100) \o "_" \o ToString(date.year % 100)

(***************************************************************************)
(* Input: the rows of the DataFrame handed to process_data.                *)
(***************************************************************************)
Symbols == {"X", "Y"}

D1 == [year |-> 2008, month |-> 6, day |-> 30]
D2 == [year |-> 2008, month |-> 7, day |-> 1]
D3 == [year |-> 2009, month |-> 6, day |-> 30]
Dates == {D1, D2, D3}

P1 == [Value |-> 100, Fees |-> 2, GST |-> 1, Rate |-> <<3, 2>>]
P2 == [Value |-> 400, Fees |-> 0, GST |-> 0, Rate |-> <<1, 1>>]
Prices == {P1, P2}

Row(sym, side, date, units, p) ==
    [Symbol |-> sym, Side |-> side, TradeDate |-> date, Units |-> units,
     Value |-> p.Value, Fees |-> p.Fees, GST |-> p.GST, Rate |-> p.Rate]

\* rows that satisfy the trade-record invariant (a known side, units > 0):
\* every buy and sell of X, and one buy and one later sell of Y
WellFormedRows ==
    {Row("X", "Buy", date, units, P1) : date \in Dates, units \in 1..MaxUnits}
    \cup {Row("X", "Sell", date, units, p) :
              date \in Dates, units \in 1..MaxUnits, p \in Prices}
    \cup {Row("Y", "Buy", D2, 1, P1), Row("Y", "Sell", D3, 1, P2)}

\* rows that break it: zero or negative units, or a side that is neither
MalformedRows ==
    {Row("X", side, D1, units, P1) : side \in {"Buy", "Sell"}, units \in {0, -1}}
    \cup {Row("X", "Hold", D1, 1, P1)}

Rows == WellFormedRows \cup MalformedRows

\* a row as the frame holds it: with its index label
Indexed(row, label) == [index |-> label] @@ row

(***************************************************************************)
(* State.                                                                  *)
(***************************************************************************)
VARIABLES
    df,                 \* the DataFrame passed to process_data
    pc,                 \* the position of the run
    buys, sells,        \* the Side == 'Buy' / 'Sell' rows (sorted in _match_trades)
    available_shares,   \* symbol -> list of parcels, oldest first
    bi, si,             \* position of the two iterrows() loops (1-based)
    remaining_to_sell,  \* units of the current sell still to match
    matched_buys,       \* parcels matched to the current sell
    results,            \* the list _match_trades returns
    warnings,           \* logger.warning records, in order
    summary,            \* financial year -> totals
    fi,                 \* position of the loop of _prepare_summary (1-based)
    out,                \* what process_data returns
    error,              \* the exception that ended the run, or "none"
    taken,              \* history: every consumption of a parcel, in order
    sold                \* history: every sell the loop took up, in order

vars == <<df, pc, buys, sells, available_shares, bi, si, remaining_to_sell,
          matched_buys, results, warnings, summary, fi, out, error, taken, sold>>

\* a Python dict with no key
EmptyDict == [k \in {} |-> <<>>]

NoFrame == [summary |-> <<>>, details |-> <<>>]

Init ==
    /\ df = <<>>
    /\ pc = "read_file"
    /\ buys = <<>>
    /\ sells = <<>>
    /\ available_shares = EmptyDict
    /\ bi = 1
    /\ si = 1
    /\ remaining_to_sell = 0
    /\ matched_buys = <<>>
    /\ results = <<>>
    /\ warnings = <<>>
    /\ summary = EmptyDict
    /\ fi = 1
    /\ out = NoFrame
    /\ error = "none"
    /\ taken = <<>>
    /\ sold = <<>>

(***************************************************************************)
(* The frame FileManager.read_file hands over (app.py line 36), built one  *)
(* row at a time: any rows, in any order, up to MaxTrades of them.         *)
(***************************************************************************)
read_file ==
    /\ pc = "read_file"
    /\ Len(df) < MaxTrades
    /\ \E row \in Rows : df' = Append(df, Indexed(row, Len(df)))
    /\ UNCHANGED <<pc, buys, sells, available_shares, bi, si, remaining_to_sell,
                   matched_buys, results, warnings, summary, fi, out, error, taken, sold>>

(***************************************************************************)
(* process_data, lines 51-55: the Financial Year column, then the split    *)
(* by side.  Rows whose side is neither 'Buy' nor 'Sell' fall in neither   *)
(* frame; nothing is logged for them.                                      *)
(***************************************************************************)
WithFinancialYear(frame) ==
    [i \in 1..Len(frame) |->
        [FinancialYear |-> _get_financial_year(frame[i].TradeDate)] @@ frame[i]]

IsBuy(row) == row.Side = "Buy"
IsSell(row) == row.Side = "Sell"

process_data ==
    /\ pc = "read_file"
    /\ df' = WithFinancialYear(df)
    /\ buys' = SelectSeq(df', IsBuy)
    /\ sells' = SelectSeq(df', IsSell)
    /\ pc' = "match_trades"
    /\ UNCHANGED <<available_shares, bi, si, remaining_to_sell, matched_buys,
                   results, warnings, summary, fi, out, error, taken, sold>>

(***************************************************************************)
(* _match_trades, lines 77-84.  sort_values('Trade Date') uses pandas'     *)
(* default kind='quicksort', which is not stable: rows of equal date may   *)
(* come out in any order.                                                  *)
(***************************************************************************)
Orderings(n) == {p \in [1..n -> 1..n] : \A i, j \in 1..n : i # j => p[i] # p[j]}

IsSortedByDate(frame) ==
    \A i, j \in 1..Len(frame) :
        i < j => Ordinal(frame[i].TradeDate) <= Ordinal(frame[j].TradeDate)

\* a sort that leaves the rows in file order
sort_values_file_order(frame) == {frame}

sort_values(frame) ==
    {g \in {[i \in 1..Len(frame) |-> frame[p[i]]] : p \in Orderings(Len(frame))} :
        IsSortedByDate(g)}

\* where the run stands once the sell at position i - 1 is dealt with
AtSell(i) == IF i > Len(sells) THEN "prepare_summary" ELSE "next_sell"

match_trades ==
    /\ pc = "match_trades"
    /\ \E sb \in sort_values(buys), ss \in sort_values(sells) :
          /\ buys' = sb
          /\ sells' = ss
          /\ pc' = IF Len(sb) > 0 THEN "load_buys"
                   ELSE IF Len(ss) > 0 THEN "next_sell" ELSE "prepare_summary"
    /\ results' = <<>>
    /\ available_shares' = EmptyDict
    /\ UNCHANGED <<df, bi, si, remaining_to_sell, matched_buys, warnings,
                   summary, fi, out, error, taken, sold>>

(***************************************************************************)
(* _match_trades, lines 87-102: one iteration of the loop over the buys.   *)
(* The parcel's index field is the row's index label (history only: the    *)
(* code drops it).                                                         *)
(***************************************************************************)
total_cost(buy) ==
    RMul(RAdd(RAdd(Rat(Abs(buy.Value)), Rat(buy.Fees)), Rat(buy.GST)), buy.Rate)

Parcel(buy) ==
    [date |-> buy.TradeDate, units |-> Abs(buy.Units), value |-> Abs(buy.Value),
     fees |-> buy.Fees, gst |-> buy.GST, rate |-> buy.Rate,
     total_cost |-> total_cost(buy), index |-> buy.index]

SharesOf(shares, symbol) ==
    IF symbol \in DOMAIN shares THEN shares[symbol] ELSE <<>>

SetShares(shares, symbol, list) ==
    [k \in DOMAIN shares \cup {symbol} |-> IF k = symbol THEN list ELSE shares[k]]

add_lot ==
    /\ pc = "load_buys"
    /\ bi <= Len(buys)
    /\ LET buy == buys[bi] IN
          available_shares' =
              SetShares(available_shares, buy.Symbol,
                        Append(SharesOf(available_shares, buy.Symbol), Parcel(buy)))
    /\ bi' = bi + 1
    /\ pc' = IF bi' <= Len(buys) THEN "load_buys" ELSE AtSell(si)
    /\ UNCHANGED <<df, buys, sells, si, remaining_to_sell, matched_buys, results,
                   warnings, summary, fi, out, error, taken, sold>>

(***************************************************************************)
(* _match_trades, lines 104-119: the head of one iteration of the loop     *)
(* over the sells.                                                         *)
(***************************************************************************)
NoShares(shares, symbol) == symbol \notin DOMAIN shares \/ shares[symbol] = <<>>

\* history record of one sell: what it asked for, the lists it found and left,
\* and how its iteration ended ("matching" until it has)
Taken_up(sell, outcome) ==
    [sell |-> sell.index, symbol |-> sell.Symbol, requested |-> Abs(sell.Units),
     before |-> available_shares, after |-> available_shares, outcome |-> outcome]

sell_begin ==
    /\ pc = "next_sell"
    /\ si <= Len(sells)
    /\ matched_buys' = <<>>
    /\ LET sell == sells[si] IN
          IF NoShares(available_shares, sell.Symbol)
          THEN /\ warnings' = Append(warnings,
                      [what |-> "No available shares found", sell |-> sell.index])
               /\ si' = si + 1
               /\ pc' = AtSell(si')
               /\ sold' = Append(sold, Taken_up(sell, "no shares"))
               /\ UNCHANGED remaining_to_sell
          ELSE /\ remaining_to_sell' = Abs(sell.Units)
               /\ pc' = "while"
               /\ sold' = Append(sold, Taken_up(sell, "matching"))
               /\ UNCHANGED <<warnings, si>>
    /\ UNCHANGED <<df, buys, sells, available_shares, bi, results, summary, fi,
                   out, error, taken>>

(***************************************************************************)
(* _match_trades, lines 121-144: one iteration of the while loop.  The     *)
(* row values are Python numbers, so dividing by a parcel of zero units    *)
(* raises ZeroDivisionError, which nothing catches.                        *)
(***************************************************************************)
Min(a, b) == IF a < b THEN a ELSE b

WhileCondition ==
    remaining_to_sell > 0 /\ SharesOf(available_shares, sells[si].Symbol) # <<>>

cost_for_these_units(parcel, units_from_parcel) ==
    RMul(parcel.total_cost, Norm(units_from_parcel, parcel.units))

\* lines 141-144: the list after units_from_parcel left its head
UpdateOrRemove(shares_list, units_from_parcel) ==
    LET left == shares_list[1].units - units_from_parcel IN
    IF left <= 0 THEN Tail(shares_list)
    ELSE [shares_list EXCEPT ![1].units = left]

consume ==
    /\ pc = "while"
    /\ WhileCondition
    /\ LET symbol == sells[si].Symbol
           shares_list == available_shares[symbol]
           oldest_parcel == shares_list[1]
           units_from_parcel == Min(remaining_to_sell, oldest_parcel.units)
       IN  IF oldest_parcel.units = 0
           THEN /\ pc' = "raised"
                /\ error' = "ZeroDivisionError"
                /\ UNCHANGED <<matched_buys, remaining_to_sell, available_shares, taken>>
           ELSE LET cost == cost_for_these_units(oldest_parcel, units_from_parcel) IN
                /\ matched_buys' = Append(matched_buys,
                       [date |-> oldest_parcel.date, units |-> units_from_parcel,
                        cost |-> cost])
                /\ remaining_to_sell' = remaining_to_sell - units_from_parcel
                /\ available_shares' =
                       SetShares(available_shares, symbol,
                                 UpdateOrRemove(shares_list, units_from_parcel))
                /\ taken' = Append(taken,
                       [lot |-> oldest_parcel.index, sell |-> sells[si].index,
                        symbol |-> symbol, date |-> oldest_parcel.date,
                        before |-> oldest_parcel.units, units |-> units_from_parcel,
                        cost |-> cost])
                /\ UNCHANGED <<pc, error>>
    /\ UNCHANGED <<df, buys, sells, bi, si, results, warnings, summary, fi, out, sold>>

(***************************************************************************)
(* _match_trades, lines 146-220: the tail of the iteration, once the       *)
(* while loop has ended.                                                   *)
(***************************************************************************)
proceeds(sell) ==
    RMul(RSub(RSub(Rat(Abs(sell.Value)), Rat(sell.Fees)), Rat(sell.GST)), sell.Rate)

holding_period(sell, matched_buy) == DaysBetween(sell.TradeDate, matched_buy.date)

portion_proceeds(sell, matched_buy) ==
    RMul(Norm(matched_buy.units, Abs(sell.Units)), proceeds(sell))

parcel_gain_loss(sell, matched_buy) ==
    RSub(portion_proceeds(sell, matched_buy), matched_buy.cost)

\* the threshold taken as exclusive
Eligible_after(days) == days > cgt_discount_days

\* line 176
Eligible(days) == days >= cgt_discount_days

\* lines 175-184: what one parcel adds to each of the three subtotals
discounted_gain(sell, matched_buy) ==
    LET g == parcel_gain_loss(sell, matched_buy) IN
    IF RPos(g) /\ Eligible(holding_period(sell, matched_buy))
    THEN RMul(g, Half) ELSE Zero

undiscounted_gain(sell, matched_buy) ==
    LET g == parcel_gain_loss(sell, matched_buy) IN
    IF RPos(g) /\ ~Eligible(holding_period(sell, matched_buy)) THEN g ELSE Zero

\* a loss halved like a gain once the parcel is held long enough
capital_loss_discounted(sell, matched_buy) ==
    LET g == parcel_gain_loss(sell, matched_buy) IN
    IF RPos(g) THEN Zero
    ELSE IF Eligible(holding_period(sell, matched_buy)) THEN RMul(g, Half) ELSE g

capital_loss(sell, matched_buy) ==
    LET g == parcel_gain_loss(sell, matched_buy) IN
    IF RPos(g) THEN Zero ELSE g

RECURSIVE RSum(_)
RSum(amounts) ==
    IF amounts = <<>> THEN Zero
    ELSE RAdd(RSum(SubSeq(amounts, 1, Len(amounts) - 1)), amounts[Len(amounts)])

SaleResult(sell, matched) ==
    LET n == Len(matched)
        total_discounted_gain ==
            RSum([i \in 1..n |-> discounted_gain(sell, matched[i])])
        total_undiscounted_gain ==
            RSum([i \in 1..n |-> undiscounted_gain(sell, matched[i])])
        total_loss == RSum([i \in 1..n |-> capital_loss(sell, matched[i])])
    IN  [symbol |-> sell.Symbol,
         buy_dates |-> [i \in 1..n |-> matched[i].date],
         sell_date |-> sell.TradeDate,
         units |-> sell.Units,
         cost_base |-> RSum([i \in 1..n |-> matched[i].cost]),
         proceeds |-> proceeds(sell),
         total_gain_loss |->
             RAdd(RAdd(total_discounted_gain, total_undiscounted_gain), total_loss),
         discounted_gain |-> total_discounted_gain,
         undiscounted_gain |-> total_undiscounted_gain,
         capital_loss |-> total_loss,
         financial_year |-> _get_financial_year(sell.TradeDate),
         holding_periods |-> [i \in 1..n |-> holding_period(sell, matched[i])]]

Ended(history, outcome, shares) ==
    [history EXCEPT ![Len(history)].outcome = outcome, ![Len(history)].after = shares]

sell_finish ==
    /\ pc = "while"
    /\ ~WhileCondition
    /\ LET sell == sells[si] IN
          IF remaining_to_sell > 0
          THEN /\ warnings' = Append(warnings,
                      [what |-> "Could not find enough shares", sell |-> sell.index])
               /\ sold' = Ended(sold, "short", available_shares)
               /\ UNCHANGED results
          ELSE IF matched_buys # <<>>
          THEN /\ results' = Append(results, SaleResult(sell, matched_buys))
               /\ sold' = Ended(sold, "result", available_shares)
               /\ UNCHANGED warnings
          ELSE /\ sold' = Ended(sold, "nothing", available_shares)
               /\ UNCHANGED <<results, warnings>>
    /\ si' = si + 1
    /\ pc' = AtSell(si')
    /\ UNCHANGED <<df, buys, sells, available_shares, bi, remaining_to_sell,
                   matched_buys, summary, fi, out, error, taken>>

(***************************************************************************)
(* _prepare_summary, lines 232-258: one iteration of the loop over the     *)
(* results.                                                                *)
(***************************************************************************)
NewPeriod == [total_gains |-> Zero, total_losses |-> Zero, net_position |-> Zero]

\* total_gains assigned (=) where the code accumulates (+=)
Fold_assigning(sum, trade) ==
    LET fy == trade.financial_year
        old == IF fy \in DOMAIN sum THEN sum[fy] ELSE NewPeriod
        gains == RAdd(trade.discounted_gain, trade.undiscounted_gain)
        losses == RAdd(old.total_losses, RAbs(trade.capital_loss))
        new == [total_gains |-> gains, total_losses |-> losses,
                net_position |-> RSub(gains, losses)]
    IN  [k \in DOMAIN sum \cup {fy} |-> IF k = fy THEN new ELSE sum[k]]

Fold(sum, trade) ==
    LET fy == trade.financial_year
        old == IF fy \in DOMAIN sum THEN sum[fy] ELSE NewPeriod
        gains == RAdd(old.total_gains,
                      RAdd(trade.discounted_gain, trade.undiscounted_gain))
        losses == RAdd(old.total_losses, RAbs(trade.capital_loss))
        new == [total_gains |-> gains, total_losses |-> losses,
                net_position |-> RSub(gains, losses)]
    IN  [k \in DOMAIN sum \cup {fy} |-> IF k = fy THEN new ELSE sum[k]]

prepare_summary ==
    /\ pc = "prepare_summary"
    /\ fi <= Len(results)
    /\ summary' = Fold(summary, results[fi])
    /\ fi' = fi + 1
    /\ UNCHANGED <<df, pc, buys, sells, available_shares, bi, si,
                   remaining_to_sell, matched_buys, results, warnings, out, error,
                   taken, sold>>

(***************************************************************************)
(* _prepare_summary, lines 261-265: pd.DataFrame(summary).T has no column  *)
(* at all when summary is {}, and df['total_gains'] then raises KeyError.  *)
(***************************************************************************)
summary_frame ==
    /\ pc = "prepare_summary"
    /\ fi > Len(results)
    /\ IF summary = EmptyDict
       THEN /\ pc' = "raised"
            /\ error' = "KeyError"
            /\ UNCHANGED out
       ELSE /\ out' = [out EXCEPT !.summary = summary]
            /\ pc' = "prepare_details"
            /\ UNCHANGED error
    /\ UNCHANGED <<df, buys, sells, available_shares, bi, si, remaining_to_sell,
                   matched_buys, results, warnings, summary, fi, taken, sold>>

(***************************************************************************)
(* _prepare_details, lines 267-278, and the return of process_data.        *)
(***************************************************************************)
prepare_details ==
    /\ pc = "prepare_details"
    /\ out' = [out EXCEPT !.details = results]
    /\ pc' = "done"
    /\ UNCHANGED <<df, buys, sells, available_shares, bi, si, remaining_to_sell,
                   matched_buys, results, warnings, summary, fi, error, taken, sold>>

Next ==
    \/ read_file
    \/ process_data
    \/ match_trades
    \/ add_lot
    \/ sell_begin
    \/ consume
    \/ sell_finish
    \/ prepare_summary
    \/ summary_frame
    \/ prepare_details

Spec == Init /\ [][Next]_vars

(***************************************************************************)
(* _get_financial_year alone, as process_data applies it to the Trade Date *)
(* of a row (line 51): one row, its date drawn from the first and last     *)
(* month of both halves of the years around a turn of century.             *)
(***************************************************************************)
Years == 1997..2012
Months == {1, 6, 7, 12}

InitFY ==
    /\ \E year \in Years, month \in Months :
           df = <<Indexed(Row("X", "Sell", [year |-> year, month |-> month, day |-> 1],
                              1, P1), 0)>>
    /\ pc = "read_file"
    /\ buys = <<>>
    /\ sells = <<>>
    /\ available_shares = EmptyDict
    /\ bi = 1
    /\ si = 1
    /\ remaining_to_sell = 0
    /\ matched_buys = <<>>
    /\ results = <<>>
    /\ warnings = <<>>
    /\ summary = EmptyDict
    /\ fi = 1
    /\ out = NoFrame
    /\ error = "none"
    /\ taken = <<>>
    /\ sold = <<>>

NextFY == process_data

SpecFY == InitFY /\ [][NextFY]_vars

(***************************************************************************)
(* A batch of one more row than read_file builds above, all of one symbol, *)
(* handed to process_data whole (app.py lines 36-38): enough rows for two  *)
(* lots and two sells, in every order of the file.                         *)
(***************************************************************************)
BatchLen == MaxTrades + 1

\* buys on the first two dates, sells on the last two
BatchRows ==
    {Row("X", "Buy", date, units, P1) : date \in {D1, D2}, units \in 1..MaxUnits}
    \cup {Row("X", "Sell", date, units, P2) : date \in {D2, D3}, units \in 1..MaxUnits}

InitBatch ==
    /\ \E f \in [1..BatchLen -> BatchRows] :
           df = [i \in 1..BatchLen |-> Indexed(f[i], i - 1)]
    /\ pc = "read_file"
    /\ buys = <<>>
    /\ sells = <<>>
    /\ available_shares = EmptyDict
    /\ bi = 1
    /\ si = 1
    /\ remaining_to_sell = 0
    /\ matched_buys = <<>>
    /\ results = <<>>
    /\ warnings = <<>>
    /\ summary = EmptyDict
    /\ fi = 1
    /\ out = NoFrame
    /\ error = "none"
    /\ taken = <<>>
    /\ sold = <<>>

NextBatch ==
    \/ process_data
    \/ match_trades
    \/ add_lot
    \/ sell_begin
    \/ consume
    \/ sell_finish
    \/ prepare_summary
    \/ summary_frame
    \/ prepare_details

SpecBatch == InitBatch /\ [][NextBatch]_vars

(***************************************************************************)
(* Helpers of the properties below.                                        *)
(***************************************************************************)
Terminated == pc \in {"done", "raised"}

\* the frame holds only rows that satisfy the trade-record invariant
WellFormed(row) == row.Side \in {"Buy", "Sell"} /\ row.Units > 0
AllWellFormed == \A i \in 1..Len(df) : WellFormed(df[i])

\* the buy rows whose parcel has been created
Loaded == {b \in 1..Len(buys) : b < bi}

\* units / cost taken so far from the parcel of the row labelled lot, over
\* the first n consumptions
RECURSIVE UnitsTaken(_, _)
UnitsTaken(lot, n) ==
    IF n = 0 THEN 0
    ELSE UnitsTaken(lot, n - 1) + (IF taken[n].lot = lot THEN taken[n].units ELSE 0)

RECURSIVE CostTaken(_, _)
CostTaken(lot, n) ==
    IF n = 0 THEN Zero
    ELSE RAdd(CostTaken(lot, n - 1), IF taken[n].lot = lot THEN taken[n].cost ELSE Zero)

Consumptions(lot) == Cardinality({n \in 1..Len(taken) : taken[n].lot = lot})

\* the units the parcel of the row labelled lot still holds (0 once removed)
RemainingUnits(symbol, lot) ==
    LET list == SharesOf(available_shares, symbol)
        at == {i \in 1..Len(list) : list[i].index = lot}
    IN  IF at = {} THEN 0 ELSE list[CHOOSE i \in at : TRUE].units

(***************************************************************************)
(* C1.  Lot splitting conservation: each consumption reduces the lot's     *)
(* remaining units by exactly the units taken, and once a lot that sells   *)
(* consumed is used up, the costs apportioned to its consumptions add up   *)
(* to its original total_cost, (value + fees + gst) * rate.                *)
(* Violated: the parcel keeps its whole total_cost while its units         *)
(* shrink, so a second partial sale is charged the full cost again.        *)
(***************************************************************************)
C1_LotSplittingConservation ==
    AllWellFormed =>
    \A b \in Loaded :
        LET lot == buys[b].index
            original == Abs(buys[b].Units)
            used == UnitsTaken(lot, Len(taken))
        IN  /\ RemainingUnits(buys[b].Symbol, lot) = original - used
            /\ (used > 0 /\ used = original) =>
                   CostTaken(lot, Len(taken)) = total_cost(buys[b])

\* the part of C1 the code keeps: units are conserved, and a lot used up by
\* a single consumption is charged exactly its total_cost
C1_UnitsConserved ==
    \A b \in Loaded :
        LET lot == buys[b].index
            original == Abs(buys[b].Units)
            used == UnitsTaken(lot, Len(taken))
        IN  /\ RemainingUnits(buys[b].Symbol, lot) = original - used
            /\ (used > 0 /\ used = original /\ Consumptions(lot) = 1) =>
                   CostTaken(lot, Len(taken)) = total_cost(buys[b])

(***************************************************************************)
(* C2.  FIFO order, whatever the order of the Buy rows in the file:        *)
(* whenever a sell takes units from a lot, every lot of that symbol bought *)
(* on a strictly earlier date has been used up before; and a sell of fewer *)
(* units than the earliest lot holds takes all of them from that lot,      *)
(* leaves the later lots as they were, and its cost base is that one       *)
(* lot's apportioned cost.                                                 *)
(***************************************************************************)
BoughtEarlier(row, consumption) ==
    /\ row.Side = "Buy"
    /\ row.Symbol = consumption.symbol
    /\ Ordinal(row.TradeDate) < Ordinal(consumption.date)

\* the consumptions made for the sell whose row is labelled label
ConsumptionsFor(label) == {n \in 1..Len(taken) : taken[n].sell = label}

C2_FIFOOrder ==
    /\ \A k \in 1..Len(taken) : \A i \in 1..Len(df) :
           BoughtEarlier(df[i], taken[k]) =>
               UnitsTaken(df[i].index, k - 1) = Abs(df[i].Units)
    /\ \A q \in 1..Len(sold) :
           LET list == SharesOf(sold[q].before, sold[q].symbol)
               left == SharesOf(sold[q].after, sold[q].symbol)
           IN  (/\ sold[q].outcome \in {"result", "short", "nothing"}
                /\ sold[q].requested > 0
                /\ sold[q].requested < list[1].units) =>
                   /\ \A j \in 1..Len(list) :
                          Ordinal(list[1].date) <= Ordinal(list[j].date)
                   /\ \A n \in ConsumptionsFor(sold[q].sell) :
                          /\ taken[n].lot = list[1].index
                          /\ taken[n].units = sold[q].requested
                   /\ Cardinality(ConsumptionsFor(sold[q].sell)) = 1
                   /\ Tail(left) = Tail(list)
                   /\ sold[q].outcome = "result"
                   /\ q = Len(sold) =>
                          \A n \in ConsumptionsFor(sold[q].sell) :
                              results[Len(results)].cost_base = taken[n].cost

\* a sell reaches a lot whose row stood before, in the file, the row of an
\* earlier-dated lot of the same symbol, after using that earlier lot up
C2_Witness ==
    \E k \in 1..Len(taken) : \E i \in 1..Len(df) :
        /\ BoughtEarlier(df[i], taken[k])
        /\ df[i].index > taken[k].lot
        /\ UnitsTaken(df[i].index, k - 1) = Abs(df[i].Units)
        /\ Abs(df[i].Units) > 0

(***************************************************************************)
(* C3.  Empty input: a run over a frame of zero rows, and more generally   *)
(* a run that accepts no sale (only buys, say), ends normally with an      *)
(* empty summary and an empty detail.                                      *)
(* Violated: _prepare_summary indexes the column 'total_gains' of the      *)
(* frame built from an empty dict, which raises KeyError.                  *)
(***************************************************************************)
C3_EmptyInput ==
    (Terminated /\ AllWellFormed /\ results = <<>>) =>
        /\ pc = "done"
        /\ error = "none"
        /\ out.summary = EmptyDict
        /\ out.details = <<>>

(***************************************************************************)
(* C4.  Shortfall non-fatal: a batch of one Sell whose symbol has no Buy   *)
(* and N >= 0 other Sells, each fully matchable, runs to its end without   *)
(* raising and yields exactly N sale results and exactly one diagnostic,   *)
(* for the unmatched Sell.                                                 *)
(* Violated for N = 0: no result reaches _prepare_summary, which then      *)
(* raises KeyError (the failure of C3).                                    *)
(***************************************************************************)
\* the units of the rows of one side and symbol among the first n rows
RECURSIVE UnitsOf(_, _, _)
UnitsOf(side, symbol, n) ==
    IF n = 0 THEN 0
    ELSE UnitsOf(side, symbol, n - 1)
         + (IF df[n].Side = side /\ df[n].Symbol = symbol THEN Abs(df[n].Units) ELSE 0)

HasBuy(symbol) == \E i \in 1..Len(df) : df[i].Side = "Buy" /\ df[i].Symbol = symbol

SellRows == {i \in 1..Len(df) : df[i].Side = "Sell"}
UnmatchedSells == {i \in SellRows : ~HasBuy(df[i].Symbol)}

\* every sell of a symbol that has buys can be matched in full: all buys are
\* loaded before the first sell is taken up
FullyMatchable ==
    \A symbol \in Symbols :
        HasBuy(symbol) =>
            UnitsOf("Sell", symbol, Len(df)) <= UnitsOf("Buy", symbol, Len(df))

OneUnmatchedSell ==
    AllWellFormed /\ Cardinality(UnmatchedSells) = 1 /\ FullyMatchable

C4_ShortfallNonFatal ==
    (Terminated /\ OneUnmatchedSell) =>
        /\ pc = "done"
        /\ error = "none"
        /\ Len(results) = Cardinality(SellRows) - 1
        /\ Len(warnings) = 1
        /\ \A i \in UnmatchedSells : warnings[1].sell = df[i].index

\* what the code keeps: the same with at least one matchable Sell
C4_WithOneMatchable ==
    (Terminated /\ OneUnmatchedSell /\ Cardinality(SellRows) >= 2) =>
        /\ pc = "done"
        /\ error = "none"
        /\ Len(results) = Cardinality(SellRows) - 1
        /\ Len(warnings) = 1
        /\ \A i \in UnmatchedSells : warnings[1].sell = df[i].index

(***************************************************************************)
(* C5.  Malformed trade rejection: a row with zero or negative units, or   *)
(* with a side other than Buy and Sell, creates no lot, consumes no lot,   *)
(* produces no sale result and is reported by a diagnostic, while the run  *)
(* goes on to its normal end.                                              *)
(* Violated: the code takes abs(units) and validates nothing, so a Buy of  *)
(* -1 units becomes a lot of 1 unit and a Buy of 0 units a lot of 0 units. *)
(***************************************************************************)
HasParcel(label) ==
    \E symbol \in DOMAIN available_shares :
        \E j \in 1..Len(available_shares[symbol]) :
            available_shares[symbol][j].index = label

C5_MalformedRejected ==
    \A i \in 1..Len(df) :
        ~WellFormed(df[i]) =>
            /\ ~HasParcel(df[i].index)
            /\ \A n \in 1..Len(taken) :
                   taken[n].lot # df[i].index /\ taken[n].sell # df[i].index
            /\ \A q \in 1..Len(sold) :
                   sold[q].sell = df[i].index => sold[q].outcome # "result"
            /\ Terminated =>
                   /\ pc = "done"
                   /\ \E w \in 1..Len(warnings) : warnings[w].sell = df[i].index

\* what the code does with a row whose side it does not know: it drops the
\* row without a diagnostic
C5_UnknownSideDropped ==
    \A i \in 1..Len(df) :
        df[i].Side \notin {"Buy", "Sell"} =>
            /\ ~HasParcel(df[i].index)
            /\ \A n \in 1..Len(taken) :
                   taken[n].lot # df[i].index /\ taken[n].sell # df[i].index
            /\ \A q \in 1..Len(sold) : sold[q].sell # df[i].index
            /\ \A w \in 1..Len(warnings) : warnings[w].sell # df[i].index

\* a parcel of zero units at the head of a list ends the run
C5_ZeroUnitsRaise == error = "ZeroDivisionError"

(***************************************************************************)
(* The sale accepted last: while the last sell taken up ended with a       *)
(* result, matched_buys still holds its parcels, sells[si - 1] is its row  *)
(* and the last element of results is its result.                          *)
(***************************************************************************)
JustAccepted == sold # <<>> /\ sold[Len(sold)].outcome = "result"
LastSell == sells[si - 1]
LastResult == results[Len(results)]

Without(seq, i) == SubSeq(seq, 1, i - 1) \o SubSeq(seq, i + 1, Len(seq))

\* the result the same sell would have had without its i-th parcel
RestOfSale(i) == SaleResult(LastSell, Without(matched_buys, i))

(***************************************************************************)
(* C6.  Discount boundary, per parcel: in an accepted sale a parcel with a *)
(* positive gain held 364 days adds its full gain to the undiscounted      *)
(* subtotal and nothing to the discounted one; held 365 days it adds       *)
(* exactly half its gain to the discounted subtotal and nothing to the     *)
(* undiscounted one, whatever the other parcels of the sale are.           *)
(***************************************************************************)
C6_DiscountBoundary ==
    JustAccepted =>
        \A i \in 1..Len(matched_buys) :
            LET g == parcel_gain_loss(LastSell, matched_buys[i])
                days == DaysBetween(LastSell.TradeDate, matched_buys[i].date)
                rest == RestOfSale(i)
            IN  /\ (RPos(g) /\ days = 364) =>
                       /\ LastResult.undiscounted_gain = RAdd(rest.undiscounted_gain, g)
                       /\ LastResult.discounted_gain = rest.discounted_gain
                       /\ LastResult.capital_loss = rest.capital_loss
                /\ (RPos(g) /\ days = 365) =>
                       /\ LastResult.discounted_gain =
                              RAdd(rest.discounted_gain, RMul(g, Half))
                       /\ LastResult.undiscounted_gain = rest.undiscounted_gain
                       /\ LastResult.capital_loss = rest.capital_loss

\* one sale with a gaining parcel held 364 days and one held 365 days
C6_Witness ==
    /\ JustAccepted
    /\ \E i, j \in 1..Len(matched_buys) :
           /\ RPos(parcel_gain_loss(LastSell, matched_buys[i]))
           /\ RPos(parcel_gain_loss(LastSell, matched_buys[j]))
           /\ DaysBetween(LastSell.TradeDate, matched_buys[i].date) = 364
           /\ DaysBetween(LastSell.TradeDate, matched_buys[j].date) = 365

(***************************************************************************)
(* C7.  Loss never discounted: a parcel whose gain is <= 0 adds its full   *)
(* value to the loss subtotal of its sale and nothing to the two gain      *)
(* subtotals, however long it was held; every result has a loss subtotal   *)
(* <= 0 and gain subtotals >= 0.                                           *)
(***************************************************************************)
C7_LossNeverDiscounted ==
    /\ \A k \in 1..Len(results) :
           /\ RLe(results[k].capital_loss, Zero)
           /\ RLe(Zero, results[k].discounted_gain)
           /\ RLe(Zero, results[k].undiscounted_gain)
    /\ JustAccepted =>
           \A i \in 1..Len(matched_buys) :
               LET g == parcel_gain_loss(LastSell, matched_buys[i])
                   rest == RestOfSale(i)
               IN  RLe(g, Zero) =>
                       /\ LastResult.capital_loss = RAdd(rest.capital_loss, g)
                       /\ LastResult.discounted_gain = rest.discounted_gain
                       /\ LastResult.undiscounted_gain = rest.undiscounted_gain

\* a losing parcel held 365 days or more, beside a gaining one or alone
C7_Witness ==
    /\ JustAccepted
    /\ \E i \in 1..Len(matched_buys) :
           /\ RLt(parcel_gain_loss(LastSell, matched_buys[i]), Zero)
           /\ DaysBetween(LastSell.TradeDate, matched_buys[i].date) >= 365

(***************************************************************************)
(* C8.  Aggregation additivity: the per-period totals do not depend on the *)
(* order in which the sale results are folded in, and after every fold     *)
(* net_position = total_gains - total_losses.                              *)
(* (In exact arithmetic: the code adds floats, whose sums may differ in    *)
(* the last bit from one order to another.)                                *)
(***************************************************************************)
RECURSIVE FoldAll(_)
FoldAll(trades) ==
    IF trades = <<>> THEN EmptyDict
    ELSE Fold(FoldAll(SubSeq(trades, 1, Len(trades) - 1)), trades[Len(trades)])

\* the results folded in so far
Folded == SubSeq(results, 1, fi - 1)

TwoDigits(n) == IF n < 10 THEN "0" \o ToString(n) ELSE ToString(n)

PeriodStart(date) == IF date.month >= 7 THEN date.year ELSE date.year - 1

PeriodName(date) ==
    "FY" \o TwoDigits(PeriodStart(date) % 100) \o "_"
         \o TwoDigits((PeriodStart(date) + 1) % 100)

C9_ReportingPeriod ==
    /\ \A i \in 1..Len(df) :
           "FinancialYear" \in DOMAIN df[i] =>
               df[i].FinancialYear = PeriodName(df[i].TradeDate)
    /\ \A k \in 1..Len(results) :
           results[k].financial_year = PeriodName(results[k].sell_date)

\* what the code keeps: the right pair of years, and the stated form when
\* neither part is below 10
C9_PeriodOfUnpaddedYears ==
    \A i \in 1..Len(df) :
        "FinancialYear" \in DOMAIN df[i] =>
            LET start == PeriodStart(df[i].TradeDate) IN
            /\ df[i].FinancialYear =
                   "FY" \o ToString(start % 100) \o "_" \o ToString((start + 1) % 100)
            /\ (start % 100 >= 10 /\ (start + 1) % 100 >= 10) =>
                   df[i].FinancialYear = PeriodName(df[i].TradeDate)

(***************************************************************************)
(* C10.  Shortfall without rollback: a Sell that asks for more units than  *)
(* are open for its symbol produces no sale result and is reported; what   *)
(* it took is not put back, so the symbol's list is left empty; the lists  *)
(* of the other symbols are as they were; and every later Sell of the      *)
(* symbol is rejected too.                                                 *)
(* Violated through the zero-unit lot of C5: with such a lot at the head   *)
(* of the list the Sell ends the run in ZeroDivisionError instead.         *)
(***************************************************************************)
RECURSIVE UnitsOpen(_)
UnitsOpen(list) ==
    IF list = <<>> THEN 0 ELSE list[1].units + UnitsOpen(Tail(list))

Shortfall(q) ==
    sold[q].requested > UnitsOpen(SharesOf(sold[q].before, sold[q].symbol))

\* the run is past the sell of the q-th history record
DealtWith(q) == q < Len(sold) \/ pc # "while"

Rejected(q) ==
    /\ sold[q].outcome \in {"short", "no shares"}
    /\ \E w \in 1..Len(warnings) : warnings[w].sell = sold[q].sell

Accepted == {q \in 1..Len(sold) : sold[q].outcome = "result"}

ShortfallHandled(q) ==
    /\ Rejected(q)
    /\ SharesOf(sold[q].after, sold[q].symbol) = <<>>
    /\ \A symbol \in Symbols \ {sold[q].symbol} :
           SharesOf(sold[q].after, symbol) = SharesOf(sold[q].before, symbol)
    /\ \A later \in (q + 1)..Len(sold) :
           (sold[later].symbol = sold[q].symbol /\ DealtWith(later)) =>
               /\ Rejected(later)
               /\ ConsumptionsFor(sold[later].sell) = {}

\* the row of the q-th history record (index labels count from 0)
RowOf(q) == df[sold[q].sell + 1]

C10_ShortfallNoRollback ==
    /\ Len(results) = Cardinality(Accepted)
    /\ \A q \in 1..Len(sold) :
           (WellFormed(RowOf(q)) /\ Shortfall(q) /\ DealtWith(q)) => ShortfallHandled(q)

\* what the code keeps: the same for every Sell whose iteration reaches its
\* end, which all do unless a zero-unit lot heads the list
C10_WhenTheLoopEnds ==
    /\ Len(results) = Cardinality(Accepted)
    /\ \A q \in 1..Len(sold) :
           (Shortfall(q) /\ DealtWith(q) /\ sold[q].outcome # "matching") =>
               ShortfallHandled(q)
    /\ \A q \in 1..Len(sold) :
           (DealtWith(q) /\ sold[q].outcome = "matching") =>
               /\ error = "ZeroDivisionError"
               /\ \E i \in 1..Len(df) :
                      df[i].Side = "Buy" /\ df[i].Units = 0
                          /\ df[i].Symbol = sold[q].symbol

\* a Sell that took units from a lot and then fell short, with a list of
\* another symbol standing by and a later Sell of the same symbol rejected
C10_PartialShortfall ==
    \E q \in 1..Len(sold) :
        /\ sold[q].outcome = "short"
        /\ ConsumptionsFor(sold[q].sell) # {}
        /\ \E later \in (q + 1)..Len(sold) :
               sold[later].symbol = sold[q].symbol /\ sold[later].outcome = "no shares"

(***************************************************************************)
(* C11.  Sell processing order: whatever the order of the rows in the      *)
(* frame, the sells are taken up in ascending Trade Date order, none being *)
(* passed over; of two consumptions of one symbol the earlier one belongs  *)
(* to the sell dated no later and takes from the lot dated no later; and   *)
(* the results, which the detail output returns as they stand, hold        *)
(* exactly one entry per accepted Sell (one whose units were all matched), *)
(* in the order the sells were taken up, so in non-decreasing sell date.   *)
(***************************************************************************)
SellDate(q) == Ordinal(RowOf(q).TradeDate)

\* the row of the sell the n-th consumption was made for
SellRow(n) == df[taken[n].sell + 1]

\* units matched, over the first n consumptions, for the sell labelled label
RECURSIVE UnitsMatchedFor(_, _)
UnitsMatchedFor(label, n) ==
    IF n = 0 THEN 0
    ELSE UnitsMatchedFor(label, n - 1)
             + (IF taken[n].sell = label THEN taken[n].units ELSE 0)

FullyMatched(q) ==
    /\ DealtWith(q)
    /\ sold[q].requested > 0
    /\ UnitsMatchedFor(sold[q].sell, Len(taken)) = sold[q].requested

\* the history records of the accepted sells, in the order taken up
AcceptedSells == SelectSeq([q \in 1..Len(sold) |-> q], FullyMatched)

C11_SellProcessingOrder ==
    /\ \A p, q \in 1..Len(sold) : p < q => SellDate(p) <= SellDate(q)
    /\ \A q \in 1..Len(sold) : \A i \in SellRows :
           Ordinal(df[i].TradeDate) < SellDate(q) =>
               \E p \in 1..(q - 1) : sold[p].sell = df[i].index
    /\ \A k, m \in 1..Len(taken) :
           (k < m /\ taken[k].symbol = taken[m].symbol) =>
               /\ Ordinal(SellRow(k).TradeDate) <= Ordinal(SellRow(m).TradeDate)
               /\ Ordinal(taken[k].date) <= Ordinal(taken[m].date)
    /\ Len(results) = Len(AcceptedSells)
    /\ \A i \in 1..Len(results) :
           LET row == RowOf(AcceptedSells[i]) IN
           /\ results[i].symbol = row.Symbol
           /\ results[i].sell_date = row.TradeDate
           /\ results[i].units = row.Units
    /\ \A i, j \in 1..Len(results) :
           i < j => Ordinal(results[i].sell_date) <= Ordinal(results[j].sell_date)
    /\ pc = "done" => out.details = results

\* a finished run over a file whose later-dated sell stands before the
\* earlier-dated one: the earlier-dated sell took the older lot, the
\* later-dated one the newer lot, and the detail lists both, earlier first
C11_Witness ==
    /\ pc = "done"
    /\ Len(out.details) = 2
    /\ Ordinal(out.details[1].sell_date) < Ordinal(out.details[2].sell_date)
    /\ \E k, m \in 1..Len(taken) :
           /\ k < m
           /\ taken[k].sell > taken[m].sell
           /\ Ordinal(SellRow(k).TradeDate) < Ordinal(SellRow(m).TradeDate)
           /\ Ordinal(taken[k].date) < Ordinal(taken[m].date)

(***************************************************************************)
(* C12.  No matching against future purchases: every lot a Sell takes      *)
(* units from was bought on or before the Sell's Trade Date, so every      *)
(* holding period of every result is >= 0; and a Sell dated before every   *)
(* lot left of its symbol is rejected as a shortfall and takes nothing.    *)
(* Violated: every Buy of the frame becomes a lot before the first Sell is *)
(* taken up (lines 87-100), and the while loop never compares the parcel's *)
(* date with the Sell's, so a Sell is matched against a later purchase and *)
(* its holding period is negative.                                         *)
(***************************************************************************)
LotsBefore(q) == SharesOf(sold[q].before, sold[q].symbol)

\* every lot the q-th sell found of its symbol was bought after its date
OnlyFuturePurchases(q) ==
    \A j \in 1..Len(LotsBefore(q)) : Ordinal(LotsBefore(q)[j].date) > SellDate(q)

C12_NoFutureMatching ==
    AllWellFormed =>
        /\ \A n \in 1..Len(taken) :
               Ordinal(taken[n].date) <= Ordinal(SellRow(n).TradeDate)
        /\ \A i \in 1..Len(results) : \A j \in 1..Len(results[i].holding_periods) :
               results[i].holding_periods[j] >= 0
        /\ \A q \in 1..Len(sold) :
               (DealtWith(q) /\ OnlyFuturePurchases(q)) =>
                   /\ Rejected(q)
                   /\ ConsumptionsFor(sold[q].sell) = {}

\* what the code does: a Sell of well-formed rows is accepted with a lot
\* bought after it, and the detail output reports a negative holding period
C12_SoldBeforeBought ==
    /\ AllWellFormed
    /\ pc = "done"
    /\ \E i \in 1..Len(out.details) : \E j \in 1..Len(out.details[i].holding_periods) :
           /\ out.details[i].holding_periods[j] < 0
           /\ Ordinal(out.details[i].buy_dates[j]) > Ordinal(out.details[i].sell_date)

=============================================================================
